---- MODULE Spec2Model ----
(***************************************************************************)
(* A model of the cogment model registry: the gRPC service of              *)
(* grpcservers/modelRegistryServer.go on top of the Backend interface of   *)
(* backend/types.go.                                                       *)
(*                                                                         *)
(* Strings that the code parses or formats (pagination handles, hashes)    *)
(* are sequences of one-character strings, so that parsing and formatting  *)
(* are computed and not assumed.  "" is the empty sequence.  Byte buffers  *)
(* are sequences of byte values.                                           *)
(***************************************************************************)
EXTENDS Integers, Sequences, FiniteSets, TLC

(***************************************************************************)
(* Bounds of the model.                                                    *)
(***************************************************************************)
\* the largest number of bytes an upload buffers
MaxData == 2
\* the largest number of body messages of one upload
MaxBodies == 2
\* the largest version number the backend is driven to
MaxVersion == 1
\* the longest explicit list (model IDs, version numbers) of a request
MaxList == 2
\* the largest models_count / versions_count of a request
MaxCount == 2
\* how far the capacity of a decoded repeated field may exceed its length
CapSlack == 1
\* the largest configured download chunk size
MaxChunk == 2
\* the largest number of fragments a download is followed for
MaxSent == 3
\* the largest version number of the specification of the listings
MaxListed == 2
\* the longest payload of the specification of the downloads
MaxPayload == 3
\* the number of concurrent waits on the gate
MaxWaiters == 2
\* the largest version number a client of the Backend interface reaches
MaxStored == 3
\* the number of concurrent CreateVersion calls
MaxCallers == 3
\* the number of negative configured chunk sizes
MaxNegative == 1

ByteValues == {0, 1}
ModelIDs == {"m1", "m2"}
\* the model IDs of the specifications that move payloads
PayloadModelIDs == {"m1"}
\* the order in which the backend lists models
ModelOrder == <<"m1", "m2">>

(***************************************************************************)
(* Sequences.                                                              *)
(***************************************************************************)
SeqsUpTo(S, n) == UNION {[1..k -> S] : k \in 0..n}

RECURSIVE Flatten(_)
Flatten(ss) == IF ss = <<>> THEN <<>> ELSE Head(ss) \o Flatten(Tail(ss))

Last(s) == s[Len(s)]

(***************************************************************************)
(* Go slice expressions on a slice of length Len(s) and capacity cap.  The *)
(* elements between the length and the capacity are those of the backing   *)
(* array, zero values for a freshly decoded repeated field.  A slice value *)
(* is [ok, elems, cap]; ok = FALSE is the run-time panic "slice bounds out *)
(* of range".                                                              *)
(***************************************************************************)
Panicked == [ok |-> FALSE, elems |-> <<>>, cap |-> 0]

\* s[low:] : low must be within 0..len(s)
SliceFrom(s, cap, low) ==
    IF low < 0 \/ low > Len(s) THEN Panicked
    ELSE [ok |-> TRUE, elems |-> SubSeq(s, low + 1, Len(s)), cap |-> cap - low]

\* s[:high] : high must be within 0..cap(s); past len(s) it exposes the array
SliceTo(s, cap, high, zero) ==
    IF high < 0 \/ high > cap THEN Panicked
    ELSE [ok |-> TRUE,
          elems |-> [i \in 1..high |-> IF i <= Len(s) THEN s[i] ELSE zero],
          cap |-> cap]

(***************************************************************************)
(* strconv: decimal parsing and formatting.                                *)
(***************************************************************************)
DigitChars == <<"0", "1", "2", "3", "4", "5", "6", "7", "8", "9">>
IsDigit(c) == \E i \in 1..10 : DigitChars[i] = c
DigitVal(c) == (CHOOSE i \in 1..10 : DigitChars[i] = c) - 1

RECURSIVE DigitsValue(_, _)
DigitsValue(acc, s) ==
    IF s = <<>> THEN acc ELSE DigitsValue(acc * 10 + DigitVal(Head(s)), Tail(s))

AllDigits(s) == s # <<>> /\ \A i \in 1..Len(s) : IsDigit(s[i])

\* strconv.ParseUint(s, 10, 0): digits only, no sign
ParseUint(s) ==
    IF AllDigits(s) THEN [ok |-> TRUE, val |-> DigitsValue(0, s)]
    ELSE [ok |-> FALSE, val |-> 0]

\* strconv.ParseInt(s, 10, 0): an optional sign, then digits
ParseInt(s) ==
    IF s # <<>> /\ Head(s) \in {"+", "-"}
    THEN IF AllDigits(Tail(s))
         THEN [ok |-> TRUE,
               val |-> IF Head(s) = "-" THEN 0 - DigitsValue(0, Tail(s))
                       ELSE DigitsValue(0, Tail(s))]
         ELSE [ok |-> FALSE, val |-> 0]
    ELSE ParseUint(s)

RECURSIVE FormatUint(_)
FormatUint(n) ==
    IF n < 10 THEN <<DigitChars[n + 1]>>
    ELSE FormatUint(n \div 10) \o <<DigitChars[(n % 10) + 1]>>

FormatInt(n) == IF n < 0 THEN <<"-">> \o FormatUint(0 - n) ELSE FormatUint(n)

(***************************************************************************)
(* The integrity codec, backend.ComputeSHA256Hash: a hex-encoded digest of *)
(* a byte buffer.  The digest is a polynomial fold of the bytes kept to 16 *)
(* bits, injective on the buffers of the model; its hex encoding has four  *)
(* characters, so no hash is the empty string.                             *)
(***************************************************************************)
HexChars == <<"0", "1", "2", "3", "4", "5", "6", "7",
              "8", "9", "a", "b", "c", "d", "e", "f">>

RECURSIVE Digest(_, _)
Digest(h, data) ==
    IF data = <<>> THEN h
    ELSE Digest((h * 3 + Head(data) + 1) % 65536, Tail(data))

HexEncode(n) ==
    <<HexChars[((n \div 4096) % 16) + 1], HexChars[((n \div 256) % 16) + 1],
      HexChars[((n \div 16) % 16) + 1], HexChars[(n % 16) + 1]>>

ComputeSHA256Hash(data) == HexEncode(Digest(0, data))

(***************************************************************************)
(* The backend, as the Backend interface of backend/types.go and its       *)
(* contract describe it.  A backend value is                               *)
(*   models   : the IDs of the models that exist,                          *)
(*   latest   : each model's LatestVersionNumber (0: no version yet),      *)
(*   versions : the version records [ModelID, VersionNumber, Data,         *)
(*              DataHash].                                                 *)
(* CreationTimestamp, Archived and UserData are carried through unchanged  *)
(* by every operation and are left out.  Every operation is atomic.        *)
(* An operation's result is [be, err, ...]; err = "" is success.           *)
(***************************************************************************)
EmptyBackend ==
    [models |-> {}, latest |-> [m \in ModelIDs |-> 0], versions |-> {}]

Max(a, b) == IF a >= b THEN a ELSE b

NoVersionInfo == [ModelID |-> "", VersionNumber |-> 0, DataHash |-> <<>>, DataSize |-> 0]

VersionInfoOf(v) ==
    [ModelID |-> v.ModelID, VersionNumber |-> v.VersionNumber,
     DataHash |-> v.DataHash, DataSize |-> Len(v.Data)]

VersionsOf(be, id) == {v \in be.versions : v.ModelID = id}

HasVersion(be, id, n) == \E v \in VersionsOf(be, id) : v.VersionNumber = n

VersionRecord(be, id, n) == CHOOSE v \in VersionsOf(be, id) : v.VersionNumber = n

BackendCreateOrUpdateModel(be, id) ==
    [be |-> [be EXCEPT !.models = @ \cup {id}], err |-> ""]

BackendRetrieveModelInfo(be, id) ==
    IF id \notin be.models
    THEN [err |-> "UnknownModel", ModelID |-> id, LatestVersionNumber |-> 0]
    ELSE [err |-> "", ModelID |-> id, LatestVersionNumber |-> be.latest[id]]

BackendDeleteModel(be, id) ==
    IF id \notin be.models THEN [be |-> be, err |-> "UnknownModel"]
    ELSE [be |-> [models |-> be.models \ {id},
                  latest |-> [be.latest EXCEPT ![id] = 0],
                  versions |-> be.versions \ VersionsOf(be, id)],
          err |-> ""]

\* the IDs of the existing models, in the backend's listing order
RECURSIVE OrderedModels(_, _)
OrderedModels(be, order) ==
    IF order = <<>> THEN <<>>
    ELSE (IF Head(order) \in be.models THEN <<Head(order)>> ELSE <<>>)
         \o OrderedModels(be, Tail(order))

\* limit <= 0: no cap.  A negative offset is refused with an opaque error.
BackendListModels(be, offset, limit) ==
    LET all == OrderedModels(be, ModelOrder)
        from == SubSeq(all, offset + 1, Len(all))
    IN IF offset < 0 THEN [err |-> "BackendError", ids |-> <<>>]
       ELSE [err |-> "",
             ids |-> IF limit > 0 /\ limit < Len(from) THEN SubSeq(from, 1, limit)
                     ELSE from]

\* VersionNumber 0 takes the next number; an existing number is replaced;
\* LatestVersionNumber becomes the larger of its value and the number.
BackendCreateOrUpdateModelVersion(be, id, args) ==
    IF id \notin be.models
    THEN [be |-> be, err |-> "UnknownModel", info |-> NoVersionInfo]
    ELSE LET n == IF args.VersionNumber = 0 THEN be.latest[id] + 1
                  ELSE args.VersionNumber
             v == [ModelID |-> id, VersionNumber |-> n,
                   Data |-> args.Data, DataHash |-> args.DataHash]
         IN [be |-> [models |-> be.models,
                     latest |-> [be.latest EXCEPT ![id] = Max(@, n)],
                     versions |-> {w \in be.versions :
                                     ~(w.ModelID = id /\ w.VersionNumber = n)}
                                  \cup {v}],
             err |-> "",
             info |-> VersionInfoOf(v)]

BackendRetrieveModelVersionInfo(be, id, n) ==
    IF id \notin be.models THEN [err |-> "UnknownModel", info |-> NoVersionInfo]
    ELSE IF n <= 0 \/ ~HasVersion(be, id, n)
    THEN [err |-> "UnknownModelVersion", info |-> NoVersionInfo]
    ELSE [err |-> "", info |-> VersionInfoOf(VersionRecord(be, id, n))]

BackendRetrieveModelVersionData(be, id, n) ==
    IF id \notin be.models THEN [err |-> "UnknownModel", data |-> <<>>]
    ELSE IF n <= 0 \/ ~HasVersion(be, id, n)
    THEN [err |-> "UnknownModelVersion", data |-> <<>>]
    ELSE [err |-> "", data |-> VersionRecord(be, id, n).Data]

\* BackendDeleteModelVersion, were LatestVersionNumber lowered to the highest
\* version left, so that a freed number is given again
BackendDeleteModelVersionFreeing(be, id, n) ==
    IF id \notin be.models THEN [be |-> be, err |-> "UnknownModel"]
    ELSE IF n <= 0 \/ ~HasVersion(be, id, n)
    THEN [be |-> be, err |-> "UnknownModelVersion"]
    ELSE LET left == {v.VersionNumber : v \in VersionsOf(be, id)} \ {n}
         IN [be |-> [models |-> be.models,
                     latest |-> [be.latest EXCEPT ![id] =
                                   IF left = {} THEN 0
                                   ELSE CHOOSE k \in left : \A j \in left : j <= k],
                     versions |-> be.versions \ {VersionRecord(be, id, n)}],
             err |-> ""]

BackendDeleteModelVersion(be, id, n) ==
    IF id \notin be.models THEN [be |-> be, err |-> "UnknownModel"]
    ELSE IF n <= 0 \/ ~HasVersion(be, id, n)
    THEN [be |-> be, err |-> "UnknownModelVersion"]
    ELSE [be |-> [be EXCEPT !.versions = @ \ {VersionRecord(be, id, n)}],
          err |-> ""]

\* the infos of the versions numbered >= initial, increasing, at most limit
\* of them when limit > 0
RECURSIVE VersionInfosFrom(_, _, _, _)
VersionInfosFrom(be, id, n, left) ==
    IF n > be.latest[id] \/ left = 0 THEN <<>>
    ELSE IF HasVersion(be, id, n)
    THEN <<VersionInfoOf(VersionRecord(be, id, n))>>
         \o VersionInfosFrom(be, id, n + 1, left - 1)
    ELSE VersionInfosFrom(be, id, n + 1, left)

BackendListModelVersionInfos(be, id, initialVersionNumber, limit) ==
    IF id \notin be.models THEN [err |-> "UnknownModel", infos |-> <<>>]
    ELSE [err |-> "",
          infos |-> VersionInfosFrom(be, id, Max(initialVersionNumber, 1),
                                     IF limit > 0 THEN limit ELSE 0 - 1)]

(***************************************************************************)
(* The state.                                                              *)
(*   backend     the backend's content (owned by the backend alone)        *)
(*   backendSet  the readiness gate: SetBackend has supplied the backend   *)
(*   chunkSize   ModelRegistryServer.sentModelVersionDataChunkSize         *)
(*   cv          the CreateVersion call in progress, or the last one       *)
(*   rd          the RetrieveVersionData call in progress, or the last one *)
(*   rpc         the last unary call: its request and its outcome          *)
(*   pg          a client that pages through a listing                     *)
(*   promise     the gate's promise: the instance Set supplied and the     *)
(*               waits on it                                               *)
(*   op          the last operation a client of the Backend interface      *)
(*               invoked directly                                          *)
(*   uploads     the CreateVersion calls of concurrent callers             *)
(***************************************************************************)
VARIABLES backend, backendSet, chunkSize, cv, rd, rpc, pg, promise, op, uploads

vars == <<backend, backendSet, chunkSize, cv, rd, rpc, pg, promise, op, uploads>>

(***************************************************************************)
(* The gate's promise (BackendPromise): value is the backend instance that *)
(* Set supplied, "" before; a wait is                                      *)
(*   pc      "idle", "waiting" or "returned"                               *)
(*   ctx     the wait's context: "live", or ended "before" or "after" the  *)
(*           assignment                                                    *)
(*   early   the wait started before the assignment                        *)
(*   result  what Await returned: an instance or "Canceled"                *)
(***************************************************************************)
Waiters == 1..MaxWaiters
Instances == {"b1", "b2"}

NoWait == [pc |-> "idle", ctx |-> "live", early |-> FALSE, result |-> ""]
IdlePromise == [value |-> "", waits |-> [w \in Waiters |-> NoWait]]

\* the last direct backend operation: its name and arguments, the error and
\* the version number it returned, the model's LatestVersionNumber before
\* it, and the text of the error (<<>>: no error)
NoOp ==
    [name |-> "", modelId |-> "", versionNumber |-> 0, err |-> "",
     number |-> 0, latestBefore |-> 0, text |-> <<>>]

(***************************************************************************)
(* Messages of the CreateVersion stream: a chunk with a header (the        *)
(* version info the client declares) or with a body (a data fragment).     *)
(***************************************************************************)
NoInfo == [ModelId |-> "", VersionNumber |-> 0, DataHash |-> <<>>, DataSize |-> 0]

HeaderMsg(info) == [kind |-> "header", info |-> info, chunk |-> <<>>]
BodyMsg(chunk) == [kind |-> "body", info |-> NoInfo, chunk |-> chunk]

\* what a Recv on the stream returns: a message, io.EOF or another error
MsgEvent(msg) == [kind |-> "msg", msg |-> msg]
EofEvent == [kind |-> "eof", msg |-> BodyMsg(<<>>)]
ErrEvent == [kind |-> "err", msg |-> BodyMsg(<<>>)]

RequestedVersions == {0, 1}
DeclaredHashes ==
    {<<>>, ComputeSHA256Hash(<<0, 1>>)}

Headers(ids) ==
    [ModelId : ids, VersionNumber : RequestedVersions,
     DataHash : DeclaredHashes, DataSize : 0..MaxData]

Chunks == SeqsUpTo(ByteValues, MaxData)

StreamEvents(ids) ==
    {EofEvent, ErrEvent}
    \cup {MsgEvent(HeaderMsg(h)) : h \in Headers(ids)}
    \cup {MsgEvent(BodyMsg(c)) : c \in Chunks}

(***************************************************************************)
(* The pieces of CreateVersion.                                            *)
(***************************************************************************)
\* HasHeader, were the first message taken for a header whatever it carries
HasHeaderOrNone(msg) == TRUE

\* firstChunk.GetHeader() != nil
HasHeader(msg) == msg.kind = "header"

\* HasBody, were a chunk without a body taken for an empty fragment
HasBodyOrNone(msg) == TRUE

\* chunk.GetBody() != nil
HasBody(msg) == msg.kind = "body"

\* AppendChunk, were the fragment put in front of the buffer
PrependChunk(modelData, chunk) == chunk \o modelData

\* modelData = append(modelData, chunk.GetBody().DataChunk...)
AppendChunk(modelData, chunk) == modelData \o chunk

\* SizeAccepted, were only a short stream refused
SizeAtLeast(modelData, info) == Len(modelData) >= info.DataSize

\* at io.EOF: the loop is left only with the declared number of bytes
SizeAccepted(modelData, info) == Len(modelData) = info.DataSize

\* HashAccepted, were the declared hash compared even when it is empty
HashEqual(info, receivedHash) == info.DataHash = receivedHash

\* a declared hash is checked only when it is not empty
HashAccepted(info, receivedHash) ==
    ~(info.DataHash # <<>> /\ info.DataHash # receivedHash)

\* CreateVersionArgs, were every upload stored as version 1
CreateVersionArgsFirst(info, receivedHash, modelData) ==
    [VersionNumber |-> 1, DataHash |-> receivedHash, Data |-> modelData]

\* the backend.VersionArgs literal: it sets no VersionNumber, which is
\* therefore the zero value
CreateVersionArgs(info, receivedHash, modelData) ==
    [VersionNumber |-> 0, DataHash |-> receivedHash, Data |-> modelData]

\* uint32(VersionNumber) and uint64(DataSize) keep every value from 0 to
\* 2^31 - 1, the non-negative integers of the model
createPbModelVersionInfo(modelVersionInfo) ==
    [ModelId |-> modelVersionInfo.ModelID,
     VersionNumber |-> modelVersionInfo.VersionNumber,
     DataHash |-> modelVersionInfo.DataHash,
     DataSize |-> modelVersionInfo.DataSize]

\* what of the backend a version creation may change
Content(be) == [latest |-> be.latest, versions |-> be.versions]

IdleCV ==
    [pc |-> "idle", info |-> NoInfo, modelData |-> <<>>, received |-> <<>>,
     shape |-> <<>>, eof |-> FALSE, calls |-> 0, args |-> <<>>, err |-> "",
     before |-> Content(EmptyBackend), code |-> "", reply |-> <<>>]

Callers == 1..MaxCallers
NoUploads == [p \in Callers |-> IdleCV]

\* the call's record as its first Recv finds it
NewCV(be) == [IdleCV EXCEPT !.before = Content(be)]

CVFail(c, code) == [c EXCEPT !.pc = "done", !.code = code]

(***************************************************************************)
(* CreateVersion, one action per suspension point of the handler.          *)
(*   received, shape, eof, calls, args, err and before record what         *)
(*   happened, for the properties: the fragments received, the kinds of    *)
(*   the messages received, whether io.EOF was seen, the number of         *)
(*   CreateOrUpdateModelVersion invocations, their arguments and the error *)
(*   the backend returned, and the backend's content when the call         *)
(*   started.                                                              *)
(***************************************************************************)
\* every model can take one more version without passing number n
VersionsBelow(n) == \A m \in ModelIDs : backend.latest[m] < n

\* the call's record after its first Recv returned ev, the backend being be
FirstRecv(be, ev) ==
    LET new == NewCV(be)
        got == [new EXCEPT !.shape = <<ev.msg.kind>>]
    IN IF ev.kind = "eof"
       THEN [CVFail(new, "InvalidArgument") EXCEPT !.eof = TRUE]
       ELSE IF ev.kind = "err" THEN CVFail(new, "Canceled")
       ELSE IF ~HasHeader(ev.msg) THEN CVFail(got, "InvalidArgument")
       ELSE [got EXCEPT !.pc = "loop", !.info = ev.msg.info]

\* a call starts with the first Recv
CVRecvFirst(ev) ==
    /\ cv.pc \in {"idle", "done"}
    /\ cv' = FirstRecv(backend, ev)
    /\ UNCHANGED <<backend, backendSet, chunkSize, rd, rpc, pg,
                   promise, op, uploads>>

\* the record of call c after a Recv of its loop returned ev
LoopRecv(c, ev) ==
    IF ev.kind = "eof"
    THEN IF SizeAccepted(c.modelData, c.info)
         THEN IF HashAccepted(c.info, ComputeSHA256Hash(c.modelData))
              THEN [c EXCEPT !.pc = "await", !.eof = TRUE]
              ELSE [CVFail(c, "InvalidArgument") EXCEPT !.eof = TRUE]
         ELSE [CVFail(c, "InvalidArgument") EXCEPT !.eof = TRUE]
    ELSE IF ev.kind = "err" THEN CVFail(c, "Canceled")
    ELSE IF ~HasBody(ev.msg)
    THEN [CVFail(c, "InvalidArgument") EXCEPT !.shape = Append(@, ev.msg.kind)]
    ELSE [c EXCEPT !.modelData = AppendChunk(@, ev.msg.chunk),
                   !.received = Append(@, ev.msg.chunk),
                   !.shape = Append(@, ev.msg.kind)]

\* one turn of the receive loop; at io.EOF the size and the hash are checked
CVRecv(ev) ==
    /\ cv.pc = "loop"
    /\ ev.kind = "msg" =>
          /\ Len(cv.shape) <= MaxBodies
          /\ Len(cv.modelData) + Len(ev.msg.chunk) <= MaxData
    /\ cv' = LoopRecv(cv, ev)
    /\ UNCHANGED <<backend, backendSet, chunkSize, rd, rpc, pg,
                   promise, op, uploads>>

\* CVAwait, were the backend used without waiting for the gate
CVAwaitEarly ==
    /\ cv.pc = "await"
    /\ cv' = [cv EXCEPT !.pc = "commit"]
    /\ UNCHANGED <<backend, backendSet, chunkSize, rd, rpc, pg,
                   promise, op, uploads>>

\* backendPromise.Await returns the backend once it is set
CVAwait ==
    /\ cv.pc = "await"
    /\ backendSet
    /\ cv' = [cv EXCEPT !.pc = "commit"]
    /\ UNCHANGED <<backend, backendSet, chunkSize, rd, rpc, pg,
                   promise, op, uploads>>

\* backendPromise.Await fails: the stream's context ended before the set
CVAwaitCancelled ==
    /\ cv.pc = "await"
    /\ ~backendSet
    /\ cv' = CVFail(cv, "Canceled")
    /\ UNCHANGED <<backend, backendSet, chunkSize, rd, rpc, pg,
                   promise, op, uploads>>

\* the backend and the record of call c after its CreateOrUpdateModelVersion
\* on backend be and its SendAndClose: [be, c]
Committed(be, c, sendOk) ==
    LET args == CreateVersionArgs(c.info, ComputeSHA256Hash(c.modelData),
                                  c.modelData)
        r == BackendCreateOrUpdateModelVersion(be, c.info.ModelId, args)
    IN [be |-> r.be,
        c |-> [c EXCEPT
                 !.pc = "done",
                 !.calls = @ + 1,
                 !.args = <<args>>,
                 !.err = r.err,
                 !.code = IF r.err # "" THEN "Internal"
                          ELSE IF sendOk THEN "OK" ELSE "Unavailable",
                 !.reply = IF r.err = "" /\ sendOk
                           THEN <<createPbModelVersionInfo(r.info)>>
                           ELSE <<>>]]

\* CreateOrUpdateModelVersion, then SendAndClose (which may fail)
CVCommit(sendOk) ==
    /\ cv.pc = "commit"
    /\ backend' = Committed(backend, cv, sendOk).be
    /\ cv' = Committed(backend, cv, sendOk).c
    /\ UNCHANGED <<backendSet, chunkSize, rd, rpc, pg, promise, op, uploads>>

(***************************************************************************)
(* The readiness gate and the unary calls.  A unary call is one action:    *)
(* it takes effect at its backend call.  Await returns the backend once    *)
(* SetBackend has run; before that the call waits (the action is not       *)
(* enabled) unless its context ends (ctxDone), and then Await fails.       *)
(* The record of a call keeps, beside what the client sees, the number of  *)
(* backend operations the handler invoked (calls) and the error of the     *)
(* last of them (err).                                                     *)
(***************************************************************************)
\* BackendPromise.Set(b): the one assignment
Set(b) ==
    /\ ~backendSet
    /\ backendSet' = TRUE
    /\ promise' = [promise EXCEPT !.value = b]
    /\ UNCHANGED <<backend, chunkSize, cv, rd, rpc, pg, op, uploads>>

\* the server is given its one backend
SetBackend == Set("b1")

\* the outcome of backendPromise.Await(ctx): "" (the backend), "Canceled",
\* or "wait"
Await(set, ctxDone) == IF set THEN "" ELSE IF ctxDone THEN "Canceled" ELSE "wait"

NoRpc ==
    [method |-> "", modelId |-> "", list |-> <<>>, cap |-> 0, count |-> 0,
     handle |-> <<>>, code |-> "", infos |-> <<>>, next |-> <<>>,
     calls |-> 0, err |-> ""]

\* the outcome of CreateOrUpdateModel: [be, code, calls, err]
CreateOrUpdateModelReply(be, set, ctxDone, modelId) ==
    IF Await(set, ctxDone) # ""
    THEN [be |-> be, code |-> Await(set, ctxDone), calls |-> 0, err |-> ""]
    ELSE LET r == BackendCreateOrUpdateModel(be, modelId)
         IN [be |-> r.be, code |-> IF r.err # "" THEN "Internal" ELSE "OK",
             calls |-> 1, err |-> r.err]

CreateOrUpdateModel(modelId, ctxDone) ==
    /\ Await(backendSet, ctxDone) # "wait"
    /\ LET r == CreateOrUpdateModelReply(backend, backendSet, ctxDone, modelId)
       IN /\ backend' = r.be
          /\ rpc' = [NoRpc EXCEPT !.method = "CreateOrUpdateModel",
                                  !.modelId = modelId, !.code = r.code,
                                  !.calls = r.calls, !.err = r.err]
    /\ UNCHANGED <<backendSet, chunkSize, cv, rd, pg, promise, op, uploads>>

\* the outcome of DeleteModel: [be, code, calls, err]
DeleteModelReply(be, set, ctxDone, modelId) ==
    IF Await(set, ctxDone) # ""
    THEN [be |-> be, code |-> Await(set, ctxDone), calls |-> 0, err |-> ""]
    ELSE LET r == BackendDeleteModel(be, modelId)
         IN [be |-> r.be,
             code |-> IF r.err = "" THEN "OK"
                      ELSE IF r.err = "UnknownModel" THEN "NotFound"
                      ELSE "Internal",
             calls |-> 1, err |-> r.err]

DeleteModel(modelId, ctxDone) ==
    /\ Await(backendSet, ctxDone) # "wait"
    /\ LET r == DeleteModelReply(backend, backendSet, ctxDone, modelId)
       IN /\ backend' = r.be
          /\ rpc' = [NoRpc EXCEPT !.method = "DeleteModel",
                                  !.modelId = modelId, !.code = r.code,
                                  !.calls = r.calls, !.err = r.err]
    /\ UNCHANGED <<backendSet, chunkSize, cv, rd, pg, promise, op, uploads>>

(***************************************************************************)
(* RetrieveVersionData.                                                    *)
(*   fetched   the backend returned the payload                            *)
(*   calls     the number of backend operations invoked                    *)
(*   err       the error RetrieveModelVersionData returned                 *)
(*   attempts  the number of Send calls made                               *)
(*   sent      the fragments the client has been sent                      *)
(*   uploaded  when the call asks for the version that the last            *)
(*             CreateVersion call returned: the fragments that call        *)
(*             received (for the round trip)                               *)
(***************************************************************************)
IdleRD ==
    [pc |-> "idle", modelId |-> "", versionNumber |-> 0, modelData |-> <<>>,
     fetched |-> FALSE, i |-> 0, attempts |-> 0, sent |-> <<>>, code |-> "",
     uploaded |-> <<>>, calls |-> 0, err |-> ""]

RDFail(r, code) == [r EXCEPT !.pc = "done", !.code = code]

\* IsEmptyPayload, were the empty payload not told apart
NeverEmptyPayload(modelData) == FALSE

\* dataLen == 0
IsEmptyPayload(modelData) == Len(modelData) = 0

\* ReplyChunk, were the last fragment cut one byte short
ReplyChunkShort(modelData, i, size) ==
    IF i + size >= Len(modelData)
    THEN [ok |-> TRUE, chunk |-> SubSeq(modelData, i + 1, Len(modelData) - 1)]
    ELSE IF i + size < i THEN [ok |-> FALSE, chunk |-> <<>>]
    ELSE [ok |-> TRUE, chunk |-> SubSeq(modelData, i + 1, i + size)]

\* the fragment of one turn of the loop: [ok, chunk]; ok = FALSE is the
\* panic of a slice expression with high < low
ReplyChunk(modelData, i, size) ==
    IF i + size >= Len(modelData)
    THEN [ok |-> TRUE, chunk |-> SubSeq(modelData, i + 1, Len(modelData))]
    ELSE IF i + size < i THEN [ok |-> FALSE, chunk |-> <<>>]
    ELSE [ok |-> TRUE, chunk |-> SubSeq(modelData, i + 1, i + size)]

\* LoopContinues, were the loop to run once more at the end of the payload
LoopContinuesAtEnd(modelData, i) == i <= Len(modelData)

\* for i := 0; i < dataLen; i += size
LoopContinues(modelData, i) == i < Len(modelData)

\* Await, then the payload is fetched whole from the backend
RDBegin(modelId, versionNumber, ctxDone) ==
    /\ rd.pc \in {"idle", "done"}
    /\ Await(backendSet, ctxDone) # "wait"
    /\ LET r == BackendRetrieveModelVersionData(backend, modelId, versionNumber)
           new == [IdleRD EXCEPT
                     !.modelId = modelId, !.versionNumber = versionNumber,
                     !.uploaded =
                        IF /\ cv.pc = "done" /\ cv.code = "OK"
                           /\ cv.reply[1].ModelId = modelId
                           /\ cv.reply[1].VersionNumber = versionNumber
                        THEN <<cv.received>> ELSE <<>>]
           asked == [new EXCEPT !.calls = 1, !.err = r.err]
       IN rd' = IF Await(backendSet, ctxDone) # ""
                THEN RDFail(new, Await(backendSet, ctxDone))
                ELSE IF r.err \in {"UnknownModel", "UnknownModelVersion"}
                THEN RDFail(asked, "NotFound")
                ELSE IF r.err # "" THEN RDFail(asked, "Internal")
                ELSE IF IsEmptyPayload(r.data)
                THEN [asked EXCEPT !.pc = "sendEmpty", !.fetched = TRUE,
                                   !.modelData = r.data]
                ELSE IF LoopContinues(r.data, 0)
                THEN [asked EXCEPT !.pc = "loop", !.fetched = TRUE,
                                   !.modelData = r.data]
                ELSE [asked EXCEPT !.pc = "done", !.code = "OK", !.fetched = TRUE,
                                   !.modelData = r.data]
    /\ UNCHANGED <<backend, backendSet, chunkSize, cv, rpc, pg,
                   promise, op, uploads>>

\* dataLen == 0: return outStream.Send(&RetrieveVersionDataReplyChunk{})
RDSendEmpty(sendOk) ==
    /\ rd.pc = "sendEmpty"
    /\ rd' = IF sendOk
             THEN [rd EXCEPT !.pc = "done", !.code = "OK", !.attempts = @ + 1,
                             !.sent = Append(@, <<>>)]
             ELSE [RDFail(rd, "Unavailable") EXCEPT !.attempts = @ + 1]
    /\ UNCHANGED <<backend, backendSet, chunkSize, cv, rpc, pg,
                   promise, op, uploads>>

\* one turn of the loop: a fragment is cut and sent, i advances, and the
\* handler returns nil when the loop condition fails
RDSend(sendOk) ==
    /\ rd.pc = "loop"
    /\ Len(rd.sent) < MaxSent
    /\ LET c == ReplyChunk(rd.modelData, rd.i, chunkSize)
           i2 == rd.i + chunkSize
           tried == [rd EXCEPT !.attempts = @ + 1]
       IN rd' = IF ~c.ok THEN RDFail(rd, "panic")
                ELSE IF ~sendOk THEN RDFail(tried, "Unavailable")
                ELSE IF LoopContinues(rd.modelData, i2)
                THEN [tried EXCEPT !.sent = Append(@, c.chunk), !.i = i2]
                ELSE [tried EXCEPT !.sent = Append(@, c.chunk), !.i = i2,
                                   !.pc = "done", !.code = "OK"]
    /\ UNCHANGED <<backend, backendSet, chunkSize, cv, rpc, pg,
                   promise, op, uploads>>

(***************************************************************************)
(* The listings.  A request is [modelId, list, cap, count, handle]: list   *)
(* is the repeated field (model_ids, version_numbers), cap the capacity of *)
(* the slice it was decoded into, count the models_count or versions_count *)
(* and handle the model_handle or version_handle.  A reply is              *)
(* [code, infos, next, calls, err]; code "panic" is a run-time panic of    *)
(* the handler; calls and err are the number of backend operations the     *)
(* handler invoked and the error of the last of them.                      *)
(***************************************************************************)
Reply(code, infos, next) ==
    [code |-> code, infos |-> infos, next |-> next, calls |-> 0, err |-> ""]
Failure(code) == Reply(code, <<>>, <<>>)

\* reply r, given after calls backend operations, the last one returning err
After(r, calls, err) == [r EXCEPT !.calls = calls, !.err = err]

\* list[offset:], then [:count] when count > 0
ExplicitSlice(list, cap, offset, count, zero) ==
    LET from == SliceFrom(list, cap, offset)
    IN IF ~from.ok \/ count <= 0 THEN from
       ELSE SliceTo(from.elems, from.cap, count, zero)

\* RetrieveEachModel, were an unknown ID skipped and the others returned
RECURSIVE RetrieveKnownModels(_, _, _)
RetrieveKnownModels(be, ids, infos) ==
    IF ids = <<>> THEN After(Reply("OK", infos, <<>>), Len(infos), "")
    ELSE LET r == BackendRetrieveModelInfo(be, Head(ids))
         IN RetrieveKnownModels(be, Tail(ids),
                                IF r.err # "" THEN infos
                                ELSE Append(infos, [ModelId |-> r.ModelID]))

\* the loop over the model IDs: the infos so far, or the first failure
RECURSIVE RetrieveEachModel(_, _, _)
RetrieveEachModel(be, ids, infos) ==
    IF ids = <<>> THEN After(Reply("OK", infos, <<>>), Len(infos), "")
    ELSE LET r == BackendRetrieveModelInfo(be, Head(ids))
         IN IF r.err = "UnknownModel"
            THEN After(Failure("NotFound"), Len(infos) + 1, r.err)
            ELSE IF r.err # ""
            THEN After(Failure("Internal"), Len(infos) + 1, r.err)
            ELSE RetrieveEachModel(be, Tail(ids),
                                   Append(infos, [ModelId |-> r.ModelID]))

\* nextOffset := offset + len(pbModelInfos)
NextOffset(offset, infos) == offset + Len(infos)

RetrieveModelsReply(be, set, ctxDone, req) ==
    LET parsed == IF req.handle = <<>> THEN [ok |-> TRUE, val |-> 0]
                  ELSE ParseInt(req.handle)
        offset == parsed.val
        listed == BackendListModels(be, offset, req.count)
        slice == ExplicitSlice(req.list, req.cap, offset, req.count, "")
        each == RetrieveEachModel(be, slice.elems, <<>>)
    IN IF ~parsed.ok THEN Failure("InvalidArgument")
       ELSE IF Await(set, ctxDone) # "" THEN Failure(Await(set, ctxDone))
       ELSE IF Len(req.list) = 0
       THEN IF listed.err # "" THEN After(Failure("Internal"), 1, listed.err)
            ELSE LET infos == [i \in 1..Len(listed.ids) |->
                                  [ModelId |-> listed.ids[i]]]
                 IN After(Reply("OK", infos,
                                FormatInt(NextOffset(offset, infos))), 1, "")
       ELSE IF ~slice.ok THEN Failure("panic")
       ELSE IF each.code # "OK" THEN each
       ELSE After(Reply("OK", each.infos,
                        FormatInt(NextOffset(offset, each.infos))),
                  each.calls, "")

\* the loop over the version numbers: the infos so far, or the first failure
RECURSIVE RetrieveEachVersion(_, _, _, _)
RetrieveEachVersion(be, modelId, numbers, infos) ==
    IF numbers = <<>> THEN After(Reply("OK", infos, <<>>), Len(infos), "")
    ELSE LET r == BackendRetrieveModelVersionInfo(be, modelId, Head(numbers))
         IN IF r.err \in {"UnknownModel", "UnknownModelVersion"}
            THEN After(Failure("NotFound"), Len(infos) + 1, r.err)
            ELSE IF r.err # ""
            THEN After(Failure("Internal"), Len(infos) + 1, r.err)
            ELSE RetrieveEachVersion(be, modelId, Tail(numbers),
                                     Append(infos, r.info))

\* NextVersionNumber, were the handle an offset as in RetrieveModels
NextVersionOffset(initialVersionNumber, versionInfos) ==
    initialVersionNumber + Len(versionInfos)

\* nextVersionNumber := initialVersionNumber, then for each info returned
\* nextVersionNumber = versionInfo.VersionNumber + 1
NextVersionNumber(initialVersionNumber, versionInfos) ==
    IF versionInfos = <<>> THEN initialVersionNumber
    ELSE Last(versionInfos).VersionNumber + 1

PbVersionInfos(versionInfos) ==
    [i \in 1..Len(versionInfos) |-> createPbModelVersionInfo(versionInfos[i])]

RetrieveVersionInfosReply(be, set, ctxDone, req) ==
    LET parsed == IF req.handle = <<>> THEN [ok |-> TRUE, val |-> 0]
                  ELSE ParseUint(req.handle)
        initialVersionNumber == parsed.val
        listed == BackendListModelVersionInfos(be, req.modelId,
                                               initialVersionNumber, req.count)
        slice == ExplicitSlice(req.list, req.cap, initialVersionNumber,
                               req.count, 0)
        each == RetrieveEachVersion(be, req.modelId, slice.elems, <<>>)
    IN IF ~parsed.ok THEN Failure("InvalidArgument")
       ELSE IF Await(set, ctxDone) # "" THEN Failure(Await(set, ctxDone))
       ELSE IF Len(req.list) = 0
       THEN IF listed.err = "UnknownModel"
            THEN After(Failure("NotFound"), 1, listed.err)
            ELSE IF listed.err # "" THEN After(Failure("Internal"), 1, listed.err)
            ELSE After(Reply("OK", PbVersionInfos(listed.infos),
                             FormatUint(NextVersionNumber(initialVersionNumber,
                                                          listed.infos))),
                       1, "")
       ELSE IF ~slice.ok THEN Failure("panic")
       ELSE IF each.code # "OK" THEN each
       ELSE After(Reply("OK", PbVersionInfos(each.infos),
                        FormatUint(NextVersionNumber(initialVersionNumber,
                                                     each.infos))),
                  each.calls, "")

(***************************************************************************)
(* A client that pages through a listing: it sends the same list and       *)
(* count with the handle it chose for the first call, then with each       *)
(* reply's next handle, until a call fails or returns an empty page.       *)
(*   first   the handle of the first call                                  *)
(*   known   when the client started, the gate was open and every entry of *)
(*           its list existed in the backend                               *)
(*   pages   the pages returned so far                                     *)
(* Each call is recorded in rpc as the last unary call.                    *)
(***************************************************************************)
IdlePG ==
    [method |-> "", modelId |-> "", list |-> <<>>, cap |-> 0, count |-> 0,
     first |-> <<>>, handle |-> <<>>, known |-> FALSE, pages |-> <<>>,
     status |-> "idle"]

ListingReply(be, set, ctxDone, method, req) ==
    IF method = "RetrieveModels" THEN RetrieveModelsReply(be, set, ctxDone, req)
    ELSE RetrieveVersionInfosReply(be, set, ctxDone, req)

AllKnown(be, method, modelId, list) ==
    IF method = "RetrieveModels"
    THEN \A i \in 1..Len(list) : list[i] \in be.models
    ELSE /\ modelId \in be.models
         /\ \A i \in 1..Len(list) : HasVersion(be, modelId, list[i])

PGStart(method, modelId, list, cap, count, handle) ==
    /\ pg.status = "idle"
    /\ cv.pc \in {"idle", "done"}
    /\ pg' = [IdlePG EXCEPT
                !.method = method, !.modelId = modelId, !.list = list,
                !.cap = cap, !.count = count, !.first = handle,
                !.handle = handle, !.status = "paging",
                !.known = backendSet /\ AllKnown(backend, method, modelId, list)]
    /\ UNCHANGED <<backend, backendSet, chunkSize, cv, rd, rpc,
                   promise, op, uploads>>

\* one call of the listing
PGStep(ctxDone) ==
    /\ pg.status = "paging"
    /\ Len(pg.pages) <= MaxList
    /\ Await(backendSet, ctxDone) # "wait"
    /\ LET req == [modelId |-> pg.modelId, list |-> pg.list, cap |-> pg.cap,
                   count |-> pg.count, handle |-> pg.handle]
           r == ListingReply(backend, backendSet, ctxDone, pg.method, req)
       IN /\ rpc' = [method |-> pg.method, modelId |-> pg.modelId,
                     list |-> pg.list, cap |-> pg.cap, count |-> pg.count,
                     handle |-> pg.handle, code |-> r.code,
                     infos |-> r.infos, next |-> r.next,
                     calls |-> r.calls, err |-> r.err]
          /\ pg' = IF r.code # "OK" THEN [pg EXCEPT !.status = "failed"]
                   ELSE IF r.infos = <<>>
                   THEN [pg EXCEPT !.status = "done",
                                   !.pages = Append(@, r.infos)]
                   ELSE [pg EXCEPT !.handle = r.next,
                                   !.pages = Append(@, r.infos)]
    /\ UNCHANGED <<backend, backendSet, chunkSize, cv, rd,
                   promise, op, uploads>>

\* the client drops the record of a listing that ended
PGForget ==
    /\ pg.status \in {"done", "failed"}
    /\ pg' = IdlePG
    /\ rpc' = NoRpc
    /\ UNCHANGED <<backend, backendSet, chunkSize, cv, rd,
                   promise, op, uploads>>

(***************************************************************************)
(* Uploads: the CreateVersion handler against the gate and the backend.    *)
(***************************************************************************)
Init ==
    /\ backend = EmptyBackend
    /\ backendSet = FALSE
    /\ chunkSize = 1
    /\ cv = IdleCV
    /\ rd = IdleRD
    /\ rpc = NoRpc
    /\ pg = IdlePG
    /\ promise = IdlePromise
    /\ op = NoOp
    /\ uploads = NoUploads

Next ==
    \/ SetBackend
    \/ \E m \in PayloadModelIDs, ctxDone \in BOOLEAN : CreateOrUpdateModel(m, ctxDone)
    \/ \E ev \in StreamEvents(PayloadModelIDs) :
          VersionsBelow(MaxVersion) /\ CVRecvFirst(ev)
    \/ \E ev \in StreamEvents(PayloadModelIDs) : CVRecv(ev)
    \/ CVAwait
    \/ CVAwaitCancelled
    \/ \E sendOk \in BOOLEAN : CVCommit(sendOk)

Spec == Init /\ [][Next]_vars

(***************************************************************************)
(* Uploads and downloads: CreateVersion and RetrieveVersionData against    *)
(* the same backend, for every positive configured chunk size.  A         *)
(* download reads the backend once, atomically, when it starts; the client *)
(* of this specification starts an upload only between downloads, whose    *)
(* record it has dropped, and a download only between uploads.  Its        *)
(* uploads declare a size, no hash and no version number.                  *)
(***************************************************************************)
PositiveChunkSizes == 1..MaxChunk

PlainHeaders(ids) ==
    {h \in Headers(ids) : h.DataHash = <<>> /\ h.VersionNumber = 0}

PlainStreamEvents(ids) ==
    {EofEvent, ErrEvent}
    \cup {MsgEvent(HeaderMsg(h)) : h \in PlainHeaders(ids)}
    \cup {MsgEvent(BodyMsg(c)) : c \in Chunks}

\* the client drops the record of a finished download
RDForget ==
    /\ rd.pc = "done"
    /\ rd' = IdleRD
    /\ UNCHANGED <<backend, backendSet, chunkSize, cv, rpc, pg,
                   promise, op, uploads>>

InitData ==
    /\ backend = EmptyBackend
    /\ backendSet = FALSE
    /\ chunkSize \in PositiveChunkSizes
    /\ cv = IdleCV
    /\ rd = IdleRD
    /\ rpc = NoRpc
    /\ pg = IdlePG
    /\ promise = IdlePromise
    /\ op = NoOp
    /\ uploads = NoUploads

NextData ==
    \/ SetBackend
    \/ \E m \in PayloadModelIDs : CreateOrUpdateModel(m, FALSE)
    \/ \E ev \in PlainStreamEvents(PayloadModelIDs) :
          rd.pc = "idle" /\ VersionsBelow(MaxVersion) /\ CVRecvFirst(ev)
    \/ \E ev \in PlainStreamEvents(PayloadModelIDs) : CVRecv(ev)
    \/ CVAwait
    \/ CVAwaitCancelled
    \/ \E sendOk \in BOOLEAN : CVCommit(sendOk)
    \/ \E m \in PayloadModelIDs, n \in 0..MaxVersion, ctxDone \in BOOLEAN :
          cv.pc \in {"idle", "done"} /\ RDBegin(m, n, ctxDone)
    \/ \E sendOk \in BOOLEAN : RDSendEmpty(sendOk)
    \/ \E sendOk \in BOOLEAN : RDSend(sendOk)
    \/ RDForget

SpecData == InitData /\ [][NextData]_vars

(***************************************************************************)
(* Listings: RetrieveModels and RetrieveVersionInfos against a backend     *)
(* that CreateOrUpdateModel and CreateVersion fill.  The uploads of this   *)
(* specification are empty payloads for model "m1"; the backend is filled  *)
(* between listings, not during one.                                       *)
(***************************************************************************)
EmptyUploadEvents ==
    {EofEvent,
     MsgEvent(HeaderMsg([ModelId |-> "m1", VersionNumber |-> 0,
                         DataHash |-> <<>>, DataSize |-> 0]))}

Handles ==
    {<<>>, <<"1">>, <<"0", "1">>, <<"2">>, <<"-", "1">>, <<"x">>}

\* the capacities a decoded list of length n can have
Capacities(n) == IF n = 0 THEN {0} ELSE n..(n + CapSlack)

InitList ==
    /\ backend = EmptyBackend
    /\ backendSet = FALSE
    /\ chunkSize = 1
    /\ cv = IdleCV
    /\ rd = IdleRD
    /\ rpc = NoRpc
    /\ pg = IdlePG
    /\ promise = IdlePromise
    /\ op = NoOp
    /\ uploads = NoUploads

NextList ==
    \/ SetBackend
    \/ \E m \in ModelIDs : pg.status = "idle" /\ CreateOrUpdateModel(m, FALSE)
    \/ \E ev \in EmptyUploadEvents :
          pg.status = "idle" /\ VersionsBelow(MaxListed) /\ CVRecvFirst(ev)
    \/ \E ev \in EmptyUploadEvents : CVRecv(ev)
    \/ CVAwait
    \/ CVCommit(TRUE)
    \/ /\ pg.status = "idle"
       /\ \E list \in SeqsUpTo(ModelIDs, MaxList), count \in 0..MaxCount,
             handle \in Handles :
             \E cap \in Capacities(Len(list)) :
                PGStart("RetrieveModels", "", list, cap, count, handle)
    \/ /\ pg.status = "idle"
       /\ \E list \in SeqsUpTo(1..MaxListed, MaxList), count \in 0..MaxCount,
             handle \in Handles :
             \E cap \in Capacities(Len(list)) :
                PGStart("RetrieveVersionInfos", "m1", list, cap, count, handle)
    \/ \E ctxDone \in BOOLEAN : PGStep(ctxDone)
    \/ PGForget

SpecList == InitList /\ [][NextList]_vars

(***************************************************************************)
(* Single calls: each RPC of the service, called once at a time against    *)
(* the gate and the backend.  The client of this specification starts a    *)
(* call when it has dropped the record of the previous one; its uploads    *)
(* are for model "m1", of at most one byte, and declare no hash and no     *)
(* version number.                                                         *)
(***************************************************************************)
\* the record of a listing call: its request and its reply
ListingRecord(method, req, r) ==
    [method |-> method, modelId |-> req.modelId, list |-> req.list,
     cap |-> req.cap, count |-> req.count, handle |-> req.handle,
     code |-> r.code, infos |-> r.infos, next |-> r.next,
     calls |-> r.calls, err |-> r.err]

RetrieveModels(list, cap, count, handle, ctxDone) ==
    LET req == [modelId |-> "", list |-> list, cap |-> cap, count |-> count,
                handle |-> handle]
        r == RetrieveModelsReply(backend, backendSet, ctxDone, req)
    IN /\ r.code # "wait"
       /\ rpc' = ListingRecord("RetrieveModels", req, r)
       /\ UNCHANGED <<backend, backendSet, chunkSize, cv, rd, pg,
                      promise, op, uploads>>

RetrieveVersionInfos(modelId, list, cap, count, handle, ctxDone) ==
    LET req == [modelId |-> modelId, list |-> list, cap |-> cap,
                count |-> count, handle |-> handle]
        r == RetrieveVersionInfosReply(backend, backendSet, ctxDone, req)
    IN /\ r.code # "wait"
       /\ rpc' = ListingRecord("RetrieveVersionInfos", req, r)
       /\ UNCHANGED <<backend, backendSet, chunkSize, cv, rd, pg,
                      promise, op, uploads>>

\* the client drops the record of a finished upload
CVForget ==
    /\ cv.pc = "done"
    /\ cv' = IdleCV
    /\ UNCHANGED <<backend, backendSet, chunkSize, rd, rpc, pg,
                   promise, op, uploads>>

\* the client drops the record of a unary call
RpcForget ==
    /\ rpc # NoRpc
    /\ rpc' = NoRpc
    /\ UNCHANGED <<backend, backendSet, chunkSize, cv, rd, pg,
                   promise, op, uploads>>

SmallUploadEvents ==
    {EofEvent, ErrEvent, MsgEvent(BodyMsg(<<0>>))}
    \cup {MsgEvent(HeaderMsg([ModelId |-> "m1", VersionNumber |-> 0,
                              DataHash |-> <<>>, DataSize |-> n])) : n \in 0..1}

\* no call is in progress or on record
NoCall == rpc = NoRpc /\ cv.pc = "idle" /\ rd.pc = "idle"

InitCalls ==
    /\ backend = EmptyBackend
    /\ backendSet = FALSE
    /\ chunkSize = 1
    /\ cv = IdleCV
    /\ rd = IdleRD
    /\ rpc = NoRpc
    /\ pg = IdlePG
    /\ promise = IdlePromise
    /\ op = NoOp
    /\ uploads = NoUploads

NextCalls ==
    \/ SetBackend
    \/ \E m \in ModelIDs, ctxDone \in BOOLEAN :
          NoCall /\ CreateOrUpdateModel(m, ctxDone)
    \/ \E m \in ModelIDs, ctxDone \in BOOLEAN :
          NoCall /\ DeleteModel(m, ctxDone)
    \/ /\ NoCall
       /\ \E list \in SeqsUpTo(ModelIDs, MaxList), count \in 0..MaxCount,
             handle \in Handles, ctxDone \in BOOLEAN :
             \E cap \in Capacities(Len(list)) :
                RetrieveModels(list, cap, count, handle, ctxDone)
    \/ /\ NoCall
       /\ \E m \in ModelIDs, list \in SeqsUpTo(1..MaxListed, MaxList),
             count \in 0..MaxCount, handle \in Handles, ctxDone \in BOOLEAN :
             \E cap \in Capacities(Len(list)) :
                RetrieveVersionInfos(m, list, cap, count, handle, ctxDone)
    \/ RpcForget
    \/ \E ev \in SmallUploadEvents :
          NoCall /\ VersionsBelow(MaxListed) /\ CVRecvFirst(ev)
    \/ \E ev \in SmallUploadEvents : CVRecv(ev)
    \/ CVAwait
    \/ CVAwaitCancelled
    \/ \E sendOk \in BOOLEAN : CVCommit(sendOk)
    \/ CVForget
    \/ \E m \in ModelIDs, n \in 0..MaxListed, ctxDone \in BOOLEAN :
          NoCall /\ RDBegin(m, n, ctxDone)
    \/ \E sendOk \in BOOLEAN : RDSendEmpty(sendOk)
    \/ \E sendOk \in BOOLEAN : RDSend(sendOk)
    \/ RDForget

SpecCalls == InitCalls /\ [][NextCalls]_vars

(***************************************************************************)
(* Downloads: RetrieveVersionData of a version that an upload stored, for  *)
(* every payload of up to MaxPayload bytes and every positive configured   *)
(* chunk size.  The gate is open, the stored version is version 1 of model *)
(* "m1".                                                                   *)
(***************************************************************************)
\* the backend after CreateOrUpdateModel("m1") and one upload of data
StoredBackend(data) ==
    BackendCreateOrUpdateModelVersion(
        BackendCreateOrUpdateModel(EmptyBackend, "m1").be, "m1",
        CreateVersionArgs(NoInfo, ComputeSHA256Hash(data), data)).be

InitChunks ==
    /\ backend \in {StoredBackend(data) : data \in SeqsUpTo(ByteValues, MaxPayload)}
    /\ backendSet = TRUE
    /\ chunkSize \in PositiveChunkSizes
    /\ cv = IdleCV
    /\ rd = IdleRD
    /\ rpc = NoRpc
    /\ pg = IdlePG
    /\ promise = IdlePromise
    /\ op = NoOp
    /\ uploads = NoUploads

NextChunks ==
    \/ \E n \in 0..1 : RDBegin("m1", n, FALSE)
    \/ \E sendOk \in BOOLEAN : RDSendEmpty(sendOk)
    \/ \E sendOk \in BOOLEAN : RDSend(sendOk)
    \/ RDForget

SpecChunks == InitChunks /\ [][NextChunks]_vars

(***************************************************************************)
(* Downloads under every configured chunk size: RegisterModelRegistryServer *)
(* stores the integer it is given, so the size may be 0 or negative.  The  *)
(* downloads are those of SpecChunks.  No sum of the loop overflows: i is  *)
(* below dataLen whenever the size is added to it, and a turn whose sum    *)
(* reaches dataLen is the last one.                                        *)
(***************************************************************************)
ChunkSizes == (0 - MaxNegative)..MaxChunk

InitSizes ==
    /\ backend \in {StoredBackend(data) : data \in SeqsUpTo(ByteValues, MaxPayload)}
    /\ backendSet = TRUE
    /\ chunkSize \in ChunkSizes
    /\ cv = IdleCV
    /\ rd = IdleRD
    /\ rpc = NoRpc
    /\ pg = IdlePG
    /\ promise = IdlePromise
    /\ op = NoOp
    /\ uploads = NoUploads

SpecSizes == InitSizes /\ [][NextChunks]_vars

(***************************************************************************)
(* The gate: one producer that assigns the promise once and concurrent     *)
(* waits, each bound to its own context.  A wait that starts after the     *)
(* assignment returns the instance in the same step; one that starts       *)
(* before it waits, and returns the instance once it is assigned, or fails *)
(* if its context ended before the assignment.  The producer and every     *)
(* waiting call keep running (weak fairness).                              *)
(***************************************************************************)
\* waiter w calls BackendPromise.Await(ctx)
AwaitStart(w) ==
    /\ promise.waits[w].pc = "idle"
    /\ promise' = [promise EXCEPT !.waits[w] =
                     IF backendSet
                     THEN [@ EXCEPT !.pc = "returned", !.result = promise.value]
                     ELSE [@ EXCEPT !.pc = "waiting", !.early = TRUE]]
    /\ UNCHANGED <<backend, backendSet, chunkSize, cv, rd, rpc, pg, op, uploads>>

\* the context of waiter w is cancelled, or its deadline passes
ContextEnds(w) ==
    /\ promise.waits[w].ctx = "live"
    /\ promise.waits[w].pc # "returned"
    /\ promise' = [promise EXCEPT !.waits[w].ctx =
                     IF backendSet THEN "after" ELSE "before"]
    /\ UNCHANGED <<backend, backendSet, chunkSize, cv, rd, rpc, pg, op, uploads>>

\* AwaitWake, were one waiter signalled instead of all
AwaitWakeFirst(w) ==
    /\ w = 1
    /\ promise.waits[w].pc = "waiting"
    /\ backendSet
    /\ promise.waits[w].ctx # "before"
    /\ promise' = [promise EXCEPT !.waits[w].pc = "returned",
                                  !.waits[w].result = promise.value]
    /\ UNCHANGED <<backend, backendSet, chunkSize, cv, rd, rpc, pg, op, uploads>>

\* the wait of w returns the instance that was assigned
AwaitWake(w) ==
    /\ promise.waits[w].pc = "waiting"
    /\ backendSet
    /\ promise.waits[w].ctx # "before"
    /\ promise' = [promise EXCEPT !.waits[w].pc = "returned",
                                  !.waits[w].result = promise.value]
    /\ UNCHANGED <<backend, backendSet, chunkSize, cv, rd, rpc, pg, op, uploads>>

\* the wait of w fails: its context ended before the assignment
AwaitCancel(w) ==
    /\ promise.waits[w].pc = "waiting"
    /\ promise.waits[w].ctx = "before"
    /\ promise' = [promise EXCEPT !.waits[w].pc = "returned",
                                  !.waits[w].result = "Canceled"]
    /\ UNCHANGED <<backend, backendSet, chunkSize, cv, rd, rpc, pg, op, uploads>>

InitGate ==
    /\ backend = EmptyBackend
    /\ backendSet = FALSE
    /\ chunkSize = 1
    /\ cv = IdleCV
    /\ rd = IdleRD
    /\ rpc = NoRpc
    /\ pg = IdlePG
    /\ promise = IdlePromise
    /\ op = NoOp
    /\ uploads = NoUploads

NextGate ==
    \/ \E b \in Instances : Set(b)
    \/ \E w \in Waiters : AwaitStart(w)
    \/ \E w \in Waiters : ContextEnds(w)
    \/ \E w \in Waiters : AwaitWake(w)
    \/ \E w \in Waiters : AwaitCancel(w)

SpecGate ==
    /\ InitGate
    /\ [][NextGate]_vars
    /\ WF_vars(\E b \in Instances : Set(b))
    /\ \A w \in Waiters : WF_vars(AwaitWake(w)) /\ WF_vars(AwaitCancel(w))

(***************************************************************************)
(* The Backend interface, called directly by a client (as the backend test *)
(* suite does): models are created and deleted, versions are created, with *)
(* and without an explicit number, and deleted.  Payloads are empty.       *)
(***************************************************************************)
\* the error values of the interface, with the fields the backend fills in:
\* the model ID and the version number of the request
UnknownModelError(id) == [ModelID |-> id]

UnknownModelVersionError(id, n) == [ModelID |-> id, VersionNumber |-> n]

\* (*UnknownModelError).Error: no model "<id>" found
UnknownModelErrorError(e) == <<"no model", e.ModelID, "found">>

\* (*UnknownModelVersionError).Error, were the version number always printed
UnknownModelVersionErrorNumbered(e) ==
    <<"no version">> \o FormatInt(e.VersionNumber)
        \o <<"for model", e.ModelID, "found">>

\* (*UnknownModelVersionError).Error: the text is chosen by the version
\* number the error carries, the digits are those of %d
UnknownModelVersionErrorError(e) ==
    IF e.VersionNumber <= 0
    THEN <<"model", e.ModelID, "doesn't have any version yet">>
    ELSE <<"no version">> \o FormatInt(e.VersionNumber)
             \o <<"for model", e.ModelID, "found">>

\* err.Error() of the error a backend operation on (id, n) returned
ErrorText(err, id, n) ==
    IF err = "UnknownModel" THEN UnknownModelErrorError(UnknownModelError(id))
    ELSE IF err = "UnknownModelVersion"
    THEN UnknownModelVersionErrorError(UnknownModelVersionError(id, n))
    ELSE <<>>

\* the VersionArgs of a version with number n (0: the next one), no payload
EmptyVersionArgs(n) ==
    [VersionNumber |-> n, DataHash |-> ComputeSHA256Hash(<<>>), Data |-> <<>>]

DoCreateOrUpdateModel(id) ==
    /\ backend' = BackendCreateOrUpdateModel(backend, id).be
    /\ op' = [NoOp EXCEPT !.name = "CreateOrUpdateModel", !.modelId = id,
                          !.latestBefore = backend.latest[id]]
    /\ UNCHANGED <<backendSet, chunkSize, cv, rd, rpc, pg, promise, uploads>>

DoDeleteModel(id) ==
    /\ backend' = BackendDeleteModel(backend, id).be
    /\ op' = [NoOp EXCEPT !.name = "DeleteModel", !.modelId = id,
                          !.err = BackendDeleteModel(backend, id).err,
                          !.latestBefore = backend.latest[id],
                          !.text = ErrorText(BackendDeleteModel(backend, id).err,
                                             id, 0)]
    /\ UNCHANGED <<backendSet, chunkSize, cv, rd, rpc, pg, promise, uploads>>

DoCreateOrUpdateModelVersion(id, n) ==
    LET r == BackendCreateOrUpdateModelVersion(backend, id, EmptyVersionArgs(n))
    IN /\ backend' = r.be
       /\ op' = [name |-> "CreateOrUpdateModelVersion", modelId |-> id,
                 versionNumber |-> n, err |-> r.err,
                 number |-> r.info.VersionNumber,
                 latestBefore |-> backend.latest[id],
                 text |-> ErrorText(r.err, id, n)]
       /\ UNCHANGED <<backendSet, chunkSize, cv, rd, rpc, pg, promise, uploads>>

DoDeleteModelVersion(id, n) ==
    LET r == BackendDeleteModelVersion(backend, id, n)
    IN /\ backend' = r.be
       /\ op' = [name |-> "DeleteModelVersion", modelId |-> id,
                 versionNumber |-> n, err |-> r.err, number |-> 0,
                 latestBefore |-> backend.latest[id],
                 text |-> ErrorText(r.err, id, n)]
       /\ UNCHANGED <<backendSet, chunkSize, cv, rd, rpc, pg, promise, uploads>>

DoRetrieveModelVersionInfo(id, n) ==
    LET r == BackendRetrieveModelVersionInfo(backend, id, n)
    IN /\ op' = [name |-> "RetrieveModelVersionInfo", modelId |-> id,
                 versionNumber |-> n, err |-> r.err,
                 number |-> r.info.VersionNumber,
                 latestBefore |-> backend.latest[id],
                 text |-> ErrorText(r.err, id, n)]
       /\ UNCHANGED <<backend, backendSet, chunkSize, cv, rd, rpc, pg, promise,
                      uploads>>

DoRetrieveModelVersionData(id, n) ==
    LET r == BackendRetrieveModelVersionData(backend, id, n)
    IN /\ op' = [name |-> "RetrieveModelVersionData", modelId |-> id,
                 versionNumber |-> n, err |-> r.err, number |-> 0,
                 latestBefore |-> backend.latest[id],
                 text |-> ErrorText(r.err, id, n)]
       /\ UNCHANGED <<backend, backendSet, chunkSize, cv, rd, rpc, pg, promise,
                      uploads>>

InitBackend ==
    /\ backend = EmptyBackend
    /\ backendSet = TRUE
    /\ chunkSize = 1
    /\ cv = IdleCV
    /\ rd = IdleRD
    /\ rpc = NoRpc
    /\ pg = IdlePG
    /\ promise = [IdlePromise EXCEPT !.value = "b1"]
    /\ op = NoOp
    /\ uploads = NoUploads

NextBackend ==
    \/ \E id \in ModelIDs : DoCreateOrUpdateModel(id)
    \/ \E id \in ModelIDs : DoDeleteModel(id)
    \/ \E id \in ModelIDs :
          backend.latest[id] < MaxStored /\ DoCreateOrUpdateModelVersion(id, 0)
    \/ \E id \in ModelIDs, n \in 1..MaxStored : DoCreateOrUpdateModelVersion(id, n)
    \/ \E id \in ModelIDs, n \in 0..MaxStored : DoDeleteModelVersion(id, n)
    \/ \E id \in ModelIDs, n \in -1..MaxStored : DoRetrieveModelVersionInfo(id, n)
    \/ \E id \in ModelIDs, n \in -1..MaxStored : DoRetrieveModelVersionData(id, n)

SpecBackend == InitBackend /\ [][NextBackend]_vars

(***************************************************************************)
(* Concurrent uploads: each caller makes one CreateVersion call for model  *)
(* "m1", which exists; the gate is open.  The handlers run concurrently:   *)
(* their steps interleave in every order, each step of a handler being one *)
(* Recv, the Await or the backend call with the reply.  Each stream        *)
(* declares one byte, no hash and no version number, and carries at most   *)
(* one byte; the replies are delivered.                                    *)
(***************************************************************************)
OneByteEvents ==
    {EofEvent,
     MsgEvent(HeaderMsg([ModelId |-> "m1", VersionNumber |-> 0,
                         DataHash |-> <<>>, DataSize |-> 1]))}
    \cup {MsgEvent(BodyMsg(<<b>>)) : b \in ByteValues}

UpRecvFirst(p, ev) ==
    /\ uploads[p].pc = "idle"
    /\ uploads' = [uploads EXCEPT ![p] = FirstRecv(backend, ev)]
    /\ UNCHANGED <<backend, backendSet, chunkSize, cv, rd, rpc, pg, promise, op>>

UpRecv(p, ev) ==
    /\ uploads[p].pc = "loop"
    /\ ev.kind = "msg" => Len(uploads[p].modelData) < 1
    /\ uploads' = [uploads EXCEPT ![p] = LoopRecv(@, ev)]
    /\ UNCHANGED <<backend, backendSet, chunkSize, cv, rd, rpc, pg, promise, op>>

UpAwait(p) ==
    /\ uploads[p].pc = "await"
    /\ backendSet
    /\ uploads' = [uploads EXCEPT ![p].pc = "commit"]
    /\ UNCHANGED <<backend, backendSet, chunkSize, cv, rd, rpc, pg, promise, op>>

UpCommit(p) ==
    /\ uploads[p].pc = "commit"
    /\ backend' = Committed(backend, uploads[p], TRUE).be
    /\ uploads' = [uploads EXCEPT ![p] = Committed(backend, @, TRUE).c]
    /\ UNCHANGED <<backendSet, chunkSize, cv, rd, rpc, pg, promise, op>>

InitConc ==
    /\ backend = BackendCreateOrUpdateModel(EmptyBackend, "m1").be
    /\ backendSet = TRUE
    /\ chunkSize = 1
    /\ cv = IdleCV
    /\ rd = IdleRD
    /\ rpc = NoRpc
    /\ pg = IdlePG
    /\ promise = [IdlePromise EXCEPT !.value = "b1"]
    /\ op = NoOp
    /\ uploads = NoUploads

NextConc ==
    \/ \E p \in Callers, ev \in OneByteEvents : UpRecvFirst(p, ev)
    \/ \E p \in Callers, ev \in OneByteEvents : UpRecv(p, ev)
    \/ \E p \in Callers : UpAwait(p)
    \/ \E p \in Callers : UpCommit(p)

SpecConc == InitConc /\ [][NextConc]_vars

(***************************************************************************)
(* Properties of CreateVersion (under Spec).                               *)
(***************************************************************************)
\* the stream of call c had a header first and only bodies after it
WellShaped(c) ==
    /\ c.shape # <<>>
    /\ c.shape[1] = "header"
    /\ \A i \in 2..Len(c.shape) : c.shape[i] = "body"

\* the bytes call c received, in arrival order
ReceivedBytes(c) == Flatten(c.received)

DeclaredSizeMet(c) == Len(ReceivedBytes(c)) = c.info.DataSize

DeclaredHashMet(c) ==
    c.info.DataHash = <<>> \/ c.info.DataHash = ComputeSHA256Hash(ReceivedBytes(c))

\* C1: CreateOrUpdateModelVersion is invoked at most once per CreateVersion
\* call, and only after the gate gave the backend and the stream ended at
\* io.EOF with a header first, only bodies afterwards, the declared number of
\* bytes and a declared hash that is empty or the computed one; as long as it
\* has not been invoked the latest version numbers and the versions of the
\* backend are those the call started with.
C1_CommitOnlyAfterValidation ==
    /\ cv.calls <= 1
    /\ cv.calls = 1 =>
          /\ backendSet
          /\ cv.eof
          /\ WellShaped(cv)
          /\ DeclaredSizeMet(cv)
          /\ DeclaredHashMet(cv)
    /\ cv.calls = 0 => Content(backend) = cv.before
    /\ cv.pc = "done" /\ cv.code \in {"InvalidArgument", "Canceled"} =>
          cv.calls = 0

\* a call committed a payload that came in two fragments
C1_Witness ==
    /\ cv.pc = "done" /\ cv.calls = 1 /\ cv.code = "OK"
    /\ Len(cv.received) = 2 /\ Len(ReceivedBytes(cv)) = 2
    /\ Content(backend) # cv.before

\* C2: an upload that ends with a byte count other than the declared
\* DataSize, fewer or more, ends with invalid-argument and leaves the
\* backend's versions and latest version numbers as they were.
C2_SizeMismatchRejected ==
    (cv.pc = "done" /\ cv.eof /\ WellShaped(cv) /\ ~DeclaredSizeMet(cv)) =>
        /\ cv.code = "InvalidArgument"
        /\ cv.calls = 0
        /\ Content(backend) = cv.before

\* an upload of more bytes than declared was rejected
C2_Witness ==
    /\ cv.pc = "done" /\ cv.eof /\ WellShaped(cv)
    /\ Len(ReceivedBytes(cv)) > cv.info.DataSize
    /\ cv.code = "InvalidArgument"

\* C3: an upload of the declared size whose non-empty declared hash is not
\* the hash of the received bytes ends with invalid-argument and leaves the
\* backend as it was; with an empty declared hash it does not end with
\* invalid-argument.
C3_HashMismatchRejected ==
    (cv.pc = "done" /\ cv.eof /\ WellShaped(cv) /\ DeclaredSizeMet(cv)) =>
        /\ ~DeclaredHashMet(cv) =>
              /\ cv.code = "InvalidArgument"
              /\ cv.calls = 0
              /\ Content(backend) = cv.before
        /\ cv.info.DataHash = <<>> => cv.code # "InvalidArgument"

\* an upload of the declared size was rejected for its declared hash
C3_Witness ==
    /\ cv.pc = "done" /\ cv.eof /\ WellShaped(cv) /\ DeclaredSizeMet(cv)
    /\ Len(ReceivedBytes(cv)) = 2
    /\ ~DeclaredHashMet(cv)
    /\ cv.code = "InvalidArgument"

\* C4: the DataHash (and the Data) handed to the backend are the hash of (and)
\* the concatenation, in arrival order, of the received fragments: a function
\* of the bytes alone, not of the fragmentation or of the declared hash.
C4_HashOfConcatenation ==
    cv.calls = 1 =>
        /\ cv.args[1].Data = ReceivedBytes(cv)
        /\ cv.args[1].DataHash = ComputeSHA256Hash(ReceivedBytes(cv))

\* two fragments with different bytes were committed, no hash declared
C4_Witness ==
    /\ cv.calls = 1 /\ cv.code = "OK"
    /\ cv.received = <<(<<0>>), (<<1>>)>>
    /\ cv.info.DataHash = <<>>

\* C5: the version number of the header is the VersionNumber the backend
\* receives; an upload with version number 1 to a model whose latest version
\* is 1 replaces version 1 and leaves LatestVersionNumber at 1.
C5_RequestedVersionHonoured ==
    cv.calls = 1 =>
        /\ cv.args[1].VersionNumber = cv.info.VersionNumber
        /\ (cv.code = "OK" /\ cv.info.VersionNumber = 1
              /\ cv.before.latest[cv.info.ModelId] = 1) =>
              /\ backend.latest[cv.info.ModelId] = 1
              /\ VersionRecord(backend, cv.info.ModelId, 1).Data = ReceivedBytes(cv)

(***************************************************************************)
(* Properties of RetrieveVersionData (under SpecData).                     *)
(***************************************************************************)
\* C6: a download that succeeds, of the version a successful upload
\* returned, sends fragments whose concatenation is the concatenation of the
\* fragments that upload received, for every payload (the empty one too),
\* every fragmentation of it and every positive chunk size.
C6_RoundTrip ==
    (rd.pc = "done" /\ rd.code = "OK" /\ rd.uploaded # <<>>) =>
        Flatten(rd.sent) = Flatten(rd.uploaded[1])

\* two bytes uploaded in one fragment came back in two
C6_Witness ==
    /\ rd.pc = "done" /\ rd.code = "OK"
    /\ rd.uploaded = <<(<<(<<0, 1>>)>>)>>
    /\ rd.sent = <<(<<0>>), (<<1>>)>>

\* C7: for a payload of length 0 the handler makes exactly one Send, of an
\* empty fragment, and ends with the outcome of that Send: it ends
\* successfully exactly when the one empty fragment was sent, never with no
\* fragment sent.
C7_EmptyPayloadOneFragment ==
    (rd.fetched /\ Len(rd.modelData) = 0) =>
        /\ rd.pc = "done" => rd.attempts = 1
        /\ rd.pc # "done" => rd.attempts = 0 /\ rd.sent = <<>>
        /\ rd.code = "OK" <=> rd.sent = <<(<<>>)>>
        /\ rd.code # "OK" => rd.sent = <<>>
        /\ rd.code \in {"", "OK", "Unavailable"}

\* an empty payload, uploaded as such, was downloaded as one empty fragment
C7_Witness ==
    /\ rd.pc = "done" /\ rd.code = "OK"
    /\ rd.fetched /\ Len(rd.modelData) = 0
    /\ rd.uploaded = <<(<<>>)>>
    /\ rd.sent = <<(<<>>)>>

(***************************************************************************)
(* Properties of the listings (under SpecList).                            *)
(***************************************************************************)
\* the client pages from the start, with a page size, through an explicit
\* list whose entries all exist
PagesExplicitly(method) ==
    /\ pg.method = method
    /\ pg.list # <<>>
    /\ pg.known
    /\ pg.count >= 1
    /\ pg.first = <<>>

\* C8: paging through an explicit list of existing model IDs with a page
\* size >= 1 from the empty handle, no call fails, and once the empty page
\* has come the pages together are the infos of the list, once and in order.
C8_ModelPagesReproduceList ==
    PagesExplicitly("RetrieveModels") =>
        /\ pg.status # "failed"
        /\ pg.status = "done" =>
              Flatten(pg.pages) = [i \in 1..Len(pg.list) |-> [ModelId |-> pg.list[i]]]

\* C9: paging through an explicit list of existing version numbers with a
\* page size >= 1 from the empty handle, once the empty page has come the
\* pages together are the infos of the listed versions, once and in order
\* (and no call fails before it).
C9_VersionPagesReproduceList ==
    PagesExplicitly("RetrieveVersionInfos") =>
        /\ pg.status # "failed"
        /\ pg.status = "done" =>
              /\ Len(Flatten(pg.pages)) = Len(pg.list)
              /\ \A i \in 1..Len(pg.list) :
                    Flatten(pg.pages)[i].VersionNumber = pg.list[i]

\* a handle in the form strconv.FormatUint gives: digits, no leading zero
CanonicalDecimal(s) == AllDigits(s) /\ (Len(s) > 1 => s[1] # "0")

\* C10: a RetrieveVersionInfos reply, in either mode, carries as next handle
\* the decimal string of the last returned version number plus one, or, when
\* it returns no info, of the start position decoded from the request's
\* handle (0 for the empty handle).
C10_NextVersionHandle ==
    (rpc.method = "RetrieveVersionInfos" /\ rpc.code = "OK") =>
        /\ CanonicalDecimal(rpc.next)
        /\ ParseUint(rpc.next).val =
              IF rpc.infos # <<>> THEN Last(rpc.infos).VersionNumber + 1
              ELSE IF rpc.handle = <<>> THEN 0
              ELSE ParseUint(rpc.handle).val

\* a call with an explicit list and a start position returned one info
C10_Witness ==
    /\ rpc.method = "RetrieveVersionInfos" /\ rpc.code = "OK"
    /\ rpc.list = <<2, 1>> /\ rpc.handle = <<"0", "1">>
    /\ Len(rpc.infos) = 1
    /\ rpc.next = <<"2">>

(***************************************************************************)
(* Properties of the single calls (under SpecCalls).                       *)
(***************************************************************************)
NotFoundErrors == {"UnknownModel", "UnknownModelVersion"}

\* a backend error err reached the client as code
ReportedAs(err, code) ==
    /\ err \in NotFoundErrors => code = "NotFound"
    /\ (err # "" /\ err \notin NotFoundErrors) => code = "Internal"

\* C11: in every RPC (the unary calls and the listings in rpc, CreateVersion
\* in cv, RetrieveVersionData in rd) a backend call that fails with
\* UnknownModel or UnknownModelVersion is reported as not-found and one that
\* fails with another error as internal.
C11_BackendErrorsMapped ==
    /\ ReportedAs(rpc.err, rpc.code)
    /\ ReportedAs(cv.err, cv.code)
    /\ ReportedAs(rd.err, rd.code)

\* the start position a listing call decodes from its handle
StartOf(r) == IF r.handle = <<>> THEN 0 ELSE ParseInt(r.handle).val

\* the handle of listing call r is not empty and is not numeric, or is
\* negative, or, with an explicit list, is an offset past the end of the list
MalformedHandle(r) ==
    /\ r.handle # <<>>
    /\ \/ ~ParseInt(r.handle).ok
       \/ StartOf(r) < 0
       \/ r.list # <<>> /\ StartOf(r) > Len(r.list)

\* C12: a RetrieveModels or RetrieveVersionInfos call that the gate let
\* through and whose handle is malformed (not numeric, negative, or in
\* explicit-list mode past the end of the list) ends with invalid-argument
\* and has invoked no backend operation.
C12_MalformedHandleRejected ==
    (/\ rpc.method \in {"RetrieveModels", "RetrieveVersionInfos"}
     /\ rpc.code # "Canceled"
     /\ MalformedHandle(rpc)) =>
        /\ rpc.code = "InvalidArgument"
        /\ rpc.calls = 0

\* the call in rpc is a RetrieveModels call with an explicit list that the
\* gate let through, from a start position within the list
ExplicitModelsCall ==
    /\ rpc.method = "RetrieveModels"
    /\ rpc.list # <<>>
    /\ rpc.code # "Canceled"
    /\ rpc.handle # <<>> => ParseInt(rpc.handle).ok
    /\ StartOf(rpc) \in 0..Len(rpc.list)

\* the page call r asks for: the IDs of its list from its start position, at
\* most count of them when count > 0
RequestedPage(r) ==
    LET rest == SubSeq(r.list, StartOf(r) + 1, Len(r.list))
    IN IF r.count > 0 /\ r.count < Len(rest) THEN SubSeq(rest, 1, r.count)
       ELSE rest

\* call r failed as a whole with not-found if an ID of page is unknown, and
\* otherwise returned one info per ID of page, in order
AllOrNothing(r, page) ==
    IF \E i \in 1..Len(page) : page[i] \notin backend.models
    THEN r.code = "NotFound" /\ r.infos = <<>> /\ r.next = <<>>
    ELSE r.code = "OK" /\ r.infos = [i \in 1..Len(page) |-> [ModelId |-> page[i]]]

C16_NoBackendCallBeforeSet ==
    /\ ~backendSet =>
          /\ rpc.calls = 0 /\ cv.calls = 0 /\ rd.calls = 0
          /\ backend = EmptyBackend
    /\ rpc.code = "Canceled" => rpc.calls = 0
    /\ cv.code = "Canceled" => cv.calls = 0
    /\ rd.code = "Canceled" => rd.calls = 0 /\ rd.attempts = 0

\* a complete, valid upload ended with the error of Await
C16_Witness ==
    /\ ~backendSet
    /\ cv.pc = "done" /\ cv.eof /\ cv.code = "Canceled"
    /\ WellShaped(cv) /\ DeclaredSizeMet(cv)
    /\ Len(cv.received) = 1

(***************************************************************************)
(* Properties of the stream of CreateVersion (under Spec).                 *)
(***************************************************************************)
\* C13: a stream that ends before any message, a first message that is not
\* a header and a later message that is not a body each end the call with
\* invalid-argument, with no backend call; the offending message is the last
\* one the call received, and no end of stream was read after it.
C13_MalformedShapeRejected ==
    /\ (cv.pc = "done" /\ cv.eof /\ cv.shape = <<>>) =>
          cv.code = "InvalidArgument" /\ cv.calls = 0
    /\ (cv.shape # <<>> /\ cv.shape[1] # "header") =>
          /\ cv.pc = "done" /\ cv.code = "InvalidArgument"
          /\ Len(cv.shape) = 1 /\ ~cv.eof
          /\ cv.received = <<>> /\ cv.calls = 0
    /\ \A i \in 2..Len(cv.shape) :
          cv.shape[i] # "body" =>
             /\ cv.pc = "done" /\ cv.code = "InvalidArgument"
             /\ i = Len(cv.shape) /\ ~cv.eof
             /\ cv.calls = 0

\* a second header, after a header and a body, was rejected
C13_Witness ==
    /\ cv.pc = "done" /\ cv.code = "InvalidArgument"
    /\ cv.shape = <<"header", "body", "header">>
    /\ Len(cv.received) = 1 /\ ~cv.eof

\* the number of bytes of the first k fragments call c received
ReceivedUpTo(c, k) == Len(Flatten(SubSeq(c.received, 1, k)))

\* C14: the fragment that takes the running total of received bytes past the
\* declared DataSize is the last one the call receives and buffers, and the
\* call has ended with invalid-argument.
C14_ExcessRejectedAtOnce ==
    \A k \in 1..Len(cv.received) :
        ReceivedUpTo(cv, k) > cv.info.DataSize =>
           /\ k = Len(cv.received)
           /\ cv.pc = "done" /\ cv.code = "InvalidArgument"

(***************************************************************************)
(* Properties of the fragments of RetrieveVersionData (under SpecChunks).  *)
(***************************************************************************)
\* ceil(n / c)
CeilDiv(n, c) == (n + c - 1) \div c

\* C20: for a payload of n >= 1 bytes and a chunk size c >= 1 the fragments
\* sent are, in payload order, consecutive pieces of the payload; each has
\* between 1 and c bytes and each but the ceil(n/c)-th has exactly c; at most
\* ceil(n/c) are sent, and a download that succeeds has sent exactly
\* ceil(n/c) fragments that make up the payload.
C20_FragmentSizes ==
    (rd.fetched /\ Len(rd.modelData) >= 1) =>
        LET n == Len(rd.modelData)
            k == Len(rd.sent)
            so_far == Flatten(rd.sent)
        IN /\ so_far = SubSeq(rd.modelData, 1, Len(so_far))
           /\ k <= CeilDiv(n, chunkSize)
           /\ \A j \in 1..k :
                 /\ Len(rd.sent[j]) >= 1
                 /\ Len(rd.sent[j]) <= chunkSize
                 /\ j < CeilDiv(n, chunkSize) => Len(rd.sent[j]) = chunkSize
           /\ (rd.pc = "done" /\ rd.code = "OK") =>
                 k = CeilDiv(n, chunkSize) /\ so_far = rd.modelData

\* three bytes came in a fragment of two and a fragment of one
C20_Witness ==
    /\ rd.pc = "done" /\ rd.code = "OK"
    /\ chunkSize = 2
    /\ rd.sent = <<(<<0, 1>>), (<<1>>)>>

(***************************************************************************)
(* Properties of the gate (under SpecGate).                                *)
(***************************************************************************)
\* what holds of the waits at every moment
GateSafety ==
    \A w \in Waiters :
        LET x == promise.waits[w]
        IN /\ x.pc = "waiting" => x.early
           /\ x.pc = "returned" =>
                 /\ x.result # "Canceled" => backendSet /\ x.result = promise.value
                 /\ x.result = "Canceled" => x.early /\ x.ctx = "before"
                 /\ x.early => (x.result = "Canceled" <=> x.ctx = "before")
                 /\ ~x.early => x.result = promise.value

\* C17: every wait that is waiting (it started before the assignment)
\* eventually returns; a wait returns the assigned instance, the same for
\* all, or, if it started before the assignment and its context ended before
\* the assignment, the cancellation error; a wait started after the
\* assignment never waits and returns the instance.
C17_GateLiveness ==
    /\ []GateSafety
    /\ \A w \in Waiters :
          (promise.waits[w].pc = "waiting") ~> (promise.waits[w].pc = "returned")

\* a wait started before the assignment returned the instance, another one
\* failed with its context
C17_Witness ==
    /\ promise.value = "b2"
    /\ promise.waits[1].pc = "returned" /\ promise.waits[1].early
    /\ promise.waits[1].result = "b2"
    /\ promise.waits[2].pc = "returned" /\ promise.waits[2].result = "Canceled"

(***************************************************************************)
(* Properties of the version numbers (under SpecBackend).                  *)
(***************************************************************************)
\* C18: a version created without an explicit number for a model whose
\* LatestVersionNumber is n is version n+1 and leaves LatestVersionNumber at
\* n+1; deleting a version leaves LatestVersionNumber as it was, and no
\* version has a number above it: a deleted number is not given again.
C18_NextVersionNumber ==
    /\ (/\ op.name = "CreateOrUpdateModelVersion"
        /\ op.versionNumber = 0
        /\ op.err = "") =>
          /\ op.number = op.latestBefore + 1
          /\ backend.latest[op.modelId] = op.latestBefore + 1
          /\ HasVersion(backend, op.modelId, op.number)
    /\ (op.name = "DeleteModelVersion" /\ op.err = "") =>
          /\ backend.latest[op.modelId] = op.latestBefore
          /\ ~HasVersion(backend, op.modelId, op.versionNumber)
    /\ \A v \in backend.versions :
          v.VersionNumber >= 1 /\ v.VersionNumber <= backend.latest[v.ModelID]

\* after versions 1 and 2 were deleted the next version is version 3
C18_Witness ==
    /\ op.name = "CreateOrUpdateModelVersion" /\ op.versionNumber = 0
    /\ op.modelId = "m1" /\ op.err = ""
    /\ op.number = 3 /\ op.latestBefore = 2
    /\ VersionsOf(backend, "m1") = {VersionRecord(backend, "m1", 3)}

(***************************************************************************)
(* Properties of concurrent uploads (under SpecConc).                      *)
(***************************************************************************)
\* the callers whose call created a version
Creators == {p \in Callers : uploads[p].calls = 1 /\ uploads[p].err = ""}

\* the version number the call of p was given
NumberGiven(p) == uploads[p].reply[1].VersionNumber

\* C19: the calls that created a version, without explicit numbers and on
\* the same model, were given distinct numbers; the numbers are those of the
\* model's versions and are 1 to the number of such calls, with no gap; the
\* version of each number holds the payload of the call that was given it.
C19_DistinctContiguousNumbers ==
    /\ \A p \in Creators : uploads[p].code = "OK"
    /\ \A p, q \in Creators : p # q => NumberGiven(p) # NumberGiven(q)
    /\ {NumberGiven(p) : p \in Creators} = 1..Cardinality(Creators)
    /\ {v.VersionNumber : v \in VersionsOf(backend, "m1")}
          = 1..Cardinality(Creators)
    /\ Cardinality(VersionsOf(backend, "m1")) = Cardinality(Creators)
    /\ backend.latest["m1"] = Cardinality(Creators)
    /\ \A p \in Creators :
          VersionRecord(backend, "m1", NumberGiven(p)).Data
             = ReceivedBytes(uploads[p])

\* three calls created versions; caller 2 was given version 1 and caller 1
\* version 2, and each of these versions holds its caller's byte
C19_Witness ==
    /\ Creators = {1, 2, 3}
    /\ NumberGiven(2) = 1 /\ NumberGiven(1) = 2
    /\ ReceivedBytes(uploads[1]) = <<0>> /\ ReceivedBytes(uploads[2]) = <<1>>
    /\ VersionRecord(backend, "m1", 1).Data = <<1>>
    /\ VersionRecord(backend, "m1", 2).Data = <<0>>

(***************************************************************************)
(* Properties of the error texts (under SpecBackend).                      *)
(***************************************************************************)
\* the last operation was a version lookup of an existing model that failed
\* with UnknownModelVersion
LookupFailed ==
    /\ op.name \in {"RetrieveModelVersionInfo", "RetrieveModelVersionData"}
    /\ op.err = "UnknownModelVersion"

\* the two variants of the text, for the model and the number of the lookup
NoVersionYet == <<"model", op.modelId, "doesn't have any version yet">>

VersionNotFound ==
    <<"no version">> \o FormatInt(op.versionNumber)
        \o <<"for model", op.modelId, "found">>

C22_FiniteFragments ==
    rd.fetched =>
        /\ rd.code # "panic"
        /\ rd.attempts <= Max(1, Len(rd.modelData))
        /\ rd.pc = "loop" => rd.i >= rd.attempts /\ rd.i < Len(rd.modelData)

====
